---- MODULE Spec2Model ----
(***************************************************************************)
(* Model of oomf-plotter/plotter.py: the one-shot pipeline                  *)
(*   main -> load_data -> (load_csv | load_oomf) -> plot_magnetization      *)
(*        -> fig.tight_layout -> plt.show.                                  *)
(* Strings are sequences of one-character strings.  Arrays are records      *)
(* [shape, data]; sequences are 1-based where numpy is 0-based.  Numbers    *)
(* produced by a true division are exact fractions [num, den]; den = 0      *)
(* stands for the non-finite floats (num > 0: inf, num < 0: -inf, 0: nan).  *)
(***************************************************************************)
EXTENDS Integers, Sequences, FiniteSets

VARIABLES argv, filename, file, pc, called, err, pos, mag,
          fpos, fmag, color, scatter, quiver, colorbar, steps

vars == <<argv, filename, file, pc, called, err, pos, mag,
          fpos, fmag, color, scatter, quiver, colorbar, steps>>

(***************************************************************************)
(* Bounds of the explored inputs.                                           *)
(***************************************************************************)
MaxNameLen == 6
MaxRows == 3
MaxCols == 7

(***************************************************************************)
(* Program constants.                                                       *)
(***************************************************************************)
FILENAME == <<"t", "e", "s", "t">>
NCOLS == 6

CSV_EXT == <<".", "c", "s", "v">>

(***************************************************************************)
(* Python string and sequence primitives.                                   *)
(***************************************************************************)
\* s[-n:]
Tail_n(s, n) == SubSeq(s, IF Len(s) > n THEN Len(s) - n + 1 ELSE 1, Len(s))

\* ch in s
In(ch, s) == \E i \in 1..Len(s) : s[i] = ch

\* a[:, lo:hi] on a sequence of rows (lo, hi are numpy's 0-based half-open bounds)
Cols(rows, lo, hi) == [i \in 1..Len(rows) |-> SubSeq(rows[i], lo + 1, hi)]

(***************************************************************************)
(* Errors and values.  A value that is not set is the empty sequence, a     *)
(* set value a one-element sequence.                                        *)
(***************************************************************************)
NoErr == [kind |-> "none", name |-> <<>>]
Error(k) == [kind |-> k, name |-> <<>>]
ErrorNaming(k, fname) == [kind |-> k, name |-> fname]

None == <<>>
Some(a) == <<a>>

Array(sh, d) == [shape |-> sh, data |-> d]

(***************************************************************************)
(* The file system entry behind the file name: absent, or a text file of    *)
(* rectangular rows of integers separated by sep.                           *)
(***************************************************************************)
NoFile == [exists |-> FALSE, sep |-> " ", rows |-> <<>>]
TextFile(sep, rows) == [exists |-> TRUE, sep |-> sep, rows |-> rows]
NumCols(rows) == IF rows = <<>> THEN 0 ELSE Len(rows[1])

\* pd.read_csv(filename, header=None) followed by np.array(df)
read_csv(f) ==
    IF ~f.exists THEN [err |-> Error("FileNotFound"), arr |-> None]
    ELSE IF f.rows = <<>> THEN [err |-> Error("EmptyData"), arr |-> None]
    ELSE IF f.sep = "," \/ NumCols(f.rows) = 1
         THEN [err |-> NoErr,
               arr |-> Some(Array(<<Len(f.rows), NumCols(f.rows)>>, f.rows))]
         \* no comma on a line: every line is one text field
         ELSE [err |-> NoErr,
               arr |-> Some(Array(<<Len(f.rows), 1>>,
                                  [i \in 1..Len(f.rows) |-> <<f.rows[i]>>]))]

\* np.loadtxt(filename): ndmin=0 squeezes the axes of length one
loadtxt(f) ==
    IF ~f.exists THEN [err |-> Error("FileNotFound"), arr |-> None]
    ELSE IF f.rows = <<>> THEN [err |-> NoErr, arr |-> Some(Array(<<0>>, <<>>))]
    ELSE IF f.sep = "," /\ NumCols(f.rows) > 1
         THEN [err |-> Error("ParseError"), arr |-> None]
    ELSE IF Len(f.rows) = 1 /\ NumCols(f.rows) = 1
         THEN [err |-> NoErr, arr |-> Some(Array(<<>>, f.rows[1][1]))]
    ELSE IF Len(f.rows) = 1
         THEN [err |-> NoErr, arr |-> Some(Array(<<NumCols(f.rows)>>, f.rows[1]))]
    ELSE IF NumCols(f.rows) = 1
         THEN [err |-> NoErr,
               arr |-> Some(Array(<<Len(f.rows)>>,
                                  [i \in 1..Len(f.rows) |-> f.rows[i][1]]))]
    ELSE [err |-> NoErr,
          arr |-> Some(Array(<<Len(f.rows), NumCols(f.rows)>>, f.rows))]

(***************************************************************************)
(* Loaders.  Each returns [err, pos, mag].                                  *)
(***************************************************************************)
Failed(e) == [err |-> e, pos |-> None, mag |-> None]

\* the integrity check and the column split shared by both loaders
split(data) ==
    IF Len(data.shape) < 2 THEN Failed(Error("IndexError"))
    ELSE IF data.shape[2] # NCOLS THEN Failed(Error("MalformedData"))
    ELSE [err |-> NoErr,
          pos |-> Some(Array(<<data.shape[1], 3>>, Cols(data.data, 0, 3))),
          mag |-> Some(Array(<<data.shape[1], NCOLS - 3>>,
                             Cols(data.data, 3, NCOLS)))]

load_csv(fname, f) ==
    IF Tail_n(fname, 4) # CSV_EXT THEN Failed(Error("NotCsv"))
    ELSE LET r == read_csv(f)
         IN  IF r.err # NoErr THEN Failed(r.err) ELSE split(r.arr[1])

load_oomf(fname, f) ==
    LET r == loadtxt(f)
    IN  IF r.err # NoErr THEN Failed(r.err) ELSE split(r.arr[1])

\* variant: the extension test looks for a '.' anywhere in the name
dispatch_whole_name(fname) ==
    IF In(".", fname)
    THEN IF Tail_n(fname, 4) = CSV_EXT THEN "csv" ELSE "invalid"
    ELSE "oomf"

\* which loader load_data hands the name to: "csv", "oomf" or "invalid"
dispatch(fname) ==
    IF In(".", Tail_n(fname, 5))
    THEN IF Tail_n(fname, 4) = CSV_EXT THEN "csv" ELSE "invalid"
    ELSE "oomf"

\* returns [called, err, pos, mag]
load_data(fname, f) ==
    LET d == dispatch(fname)
        r == IF d = "csv" THEN load_csv(fname, f)
             ELSE IF d = "oomf" THEN load_oomf(fname, f)
             ELSE Failed(ErrorNaming("InvalidExtension", fname))
    IN  [called |-> IF d = "invalid" THEN <<>> ELSE <<d>>,
         err |-> r.err, pos |-> r.pos, mag |-> r.mag]

(***************************************************************************)
(* Arithmetic of the colour computation.                                    *)
(***************************************************************************)
Abs(n) == IF n < 0 THEN -n ELSE n
Sign(n) == IF n > 0 THEN 1 ELSE IF n < 0 THEN -1 ELSE 0

RECURSIVE GCD(_, _)
GCD(a, b) == IF b = 0 THEN a ELSE GCD(b, a % b)

\* n / d as numpy's true division computes it: a zero divisor gives inf, -inf
\* or nan (with a RuntimeWarning), never an exception
true_divide(n, d) ==
    IF d = 0 THEN [num |-> Sign(n), den |-> 0]
    ELSE LET g == GCD(Abs(n), Abs(d))
             s == Sign(d)
         IN  [num |-> (s * n) \div g, den |-> (s * d) \div g]

RECURSIVE np_max(_)
np_max(s) == IF Len(s) = 1 THEN s[1]
             ELSE LET r == np_max(Tail(s)) IN IF s[1] > r THEN s[1] ELSE r

RECURSIVE np_min(_)
np_min(s) == IF Len(s) = 1 THEN s[1]
             ELSE LET r == np_min(Tail(s)) IN IF s[1] < r THEN s[1] ELSE r

(***************************************************************************)
(* plot_magnetization.                                                      *)
(***************************************************************************)
\* variant: row.all()
any_all(row) == \A j \in 1..Len(row) : row[j] # 0

\* row.any()
any(row) == \E j \in 1..Len(row) : row[j] # 0

\* np.where(mag.any(axis=1))[0]: the indices of the rows kept, ascending
where_any(m) ==
    LET keep(i) == any(m.data[i])
    IN  SelectSeq([i \in 1..Len(m.data) |-> i], keep)

\* variant: the rows the mask names, in descending order
take_reversed(a, mask) ==
    Array(<<Len(mask), a.shape[2]>>,
          [k \in 1..Len(mask) |-> a.data[mask[Len(mask) + 1 - k]]])

\* a[mask, :]: a new array holding the rows the mask names, in mask order
take(a, mask) ==
    Array(<<Len(mask), a.shape[2]>>, [k \in 1..Len(mask) |-> a.data[mask[k]]])

\* a[:, j] (j is numpy's 0-based column)
column(a, j) == [i \in 1..Len(a.data) |-> a.data[i][j + 1]]

\* variant: the factor 2 is missing
color_of_unscaled(Mz) ==
    [i \in 1..Len(Mz) |-> true_divide(Mz[i], np_max(Mz) - np_min(Mz))]

\* variant: normalised by the maximum instead of the range
color_of_by_max(Mz) ==
    [i \in 1..Len(Mz) |-> true_divide(2 * Mz[i], np_max(Mz))]

\* color = 2 * Mz / (np.max(Mz) - np.min(Mz))
color_of(Mz) ==
    [i \in 1..Len(Mz) |-> true_divide(2 * Mz[i], np_max(Mz) - np_min(Mz))]

\* returns [err, fpos, fmag, color, scatter, quiver, colorbar]; fpos and fmag are
\* the function's rebound local names pos and mag
plot_magnetization(p, m) ==
    LET mask == where_any(m)
        fp == take(p, mask)
        fm == take(m, mask)
        X == column(fp, 0)
        Y == column(fp, 1)
        Mx == column(fm, 0)
        My == column(fm, 1)
        Mz == column(fm, 2)
        c == color_of(Mz)
    IN  IF Len(Mz) = 0
        \* np.max of a zero-size array raises ValueError
        THEN [err |-> Error("EmptyReduction"), fpos |-> Some(fp), fmag |-> Some(fm),
              color |-> None, scatter |-> None, quiver |-> None, colorbar |-> FALSE]
        ELSE [err |-> NoErr, fpos |-> Some(fp), fmag |-> Some(fm),
              color |-> Some(c),
              scatter |-> Some([i \in 1..Len(X) |-> [x |-> X[i], y |-> Y[i], c |-> c[i]]]),
              quiver |-> Some([i \in 1..Len(X) |->
                                [x |-> X[i], y |-> Y[i], u |-> Mx[i], v |-> My[i],
                                 c |-> c[i]]]),
              colorbar |-> TRUE]

(***************************************************************************)
(* Inputs: the command line and the file behind the name.                   *)
(***************************************************************************)
Chars == {".", "c", "s", "v"}
CsvName == <<"d", ".", "c", "s", "v">>

PosPool == {<<0, 0, 0>>, <<1, 2, 3>>}
MagPool == {<<0, 0, 0>>, <<1, 0, 0>>, <<0, 1, 1>>, <<0, 0, 3>>, <<0, 0, 5>>,
            <<0, 0, -1>>}
RowPool(c) == IF c = NCOLS THEN {p \o m : p \in PosPool, m \in MagPool}
              ELSE {[j \in 1..c |-> v] : v \in {0, 1}}
Seps(c) == IF c = 1 THEN {" "} ELSE {",", " "}

\* f is a file of the explored set: absent, empty, or 1..MaxRows rows of
\* 1..MaxCols fields
AllFiles(f) ==
    \/ f = NoFile
    \/ f = TextFile(" ", <<>>)
    \/ \E c \in 1..MaxCols, n \in 1..MaxRows :
           \E s \in Seps(c), t \in [1..n -> RowPool(c)] : f = TextFile(s, t)

SampleTable == <<<<0, 0, 0, 1, 0, 1>>, <<1, 2, 3, 0, 0, 0>>, <<1, 2, 3, 0, 1, 3>>>>
FewFiles == {NoFile, TextFile(",", SampleTable), TextFile(" ", SampleTable)}

\* a is a command line naming a file of 1..MaxNameLen characters
AllNames(a) == \E k \in 1..MaxNameLen : \E n \in [1..k -> Chars] : a = Some(n)

(***************************************************************************)
(* The run of main.                                                         *)
(***************************************************************************)
Init ==
    /\ \/ file \in FewFiles /\ AllNames(argv)
       \/ AllFiles(file) /\ argv \in {None, Some(CsvName)}
    /\ filename = None
    /\ pc = "args"
    /\ called = <<>>
    /\ err = NoErr
    /\ pos = None /\ mag = None
    /\ fpos = None /\ fmag = None
    /\ color = None /\ scatter = None /\ quiver = None
    /\ colorbar = FALSE
    /\ steps = <<>>

\* parser.parse_args(): --filename / -f, default FILENAME
ParseArgs ==
    /\ pc = "args"
    /\ filename' = IF argv = None THEN Some(FILENAME) ELSE argv
    /\ pc' = "load"
    /\ UNCHANGED <<argv, file, called, err, pos, mag, fpos, fmag, color, scatter,
                   quiver, colorbar, steps>>

\* variant: a failed load is caught and tried again
LoadData_retry ==
    /\ pc = "load"
    /\ LET r == load_data(filename[1], file)
       IN  /\ called' = r.called
           /\ err' = r.err
           /\ pos' = r.pos
           /\ mag' = r.mag
           /\ pc' = IF r.err = NoErr THEN "plot" ELSE "load"
    /\ steps' = Append(steps, "load")
    /\ UNCHANGED <<argv, filename, file, fpos, fmag, color, scatter, quiver, colorbar>>

\* pos, mag = load_data(filename); an exception ends the run
LoadData ==
    /\ pc = "load"
    /\ LET r == load_data(filename[1], file)
       IN  /\ called' = r.called
           /\ err' = r.err
           /\ pos' = r.pos
           /\ mag' = r.mag
           /\ pc' = IF r.err = NoErr THEN "plot" ELSE "error"
    /\ steps' = Append(steps, "load")
    /\ UNCHANGED <<argv, filename, file, fpos, fmag, color, scatter, quiver, colorbar>>

\* variant: the filter writes the kept rows into the caller's arrays
PlotMagnetization_inplace ==
    /\ pc = "plot"
    /\ LET r == plot_magnetization(pos[1], mag[1])
       IN  /\ err' = r.err
           /\ fpos' = r.fpos
           /\ fmag' = r.fmag
           /\ pos' = r.fpos
           /\ mag' = r.fmag
           /\ color' = r.color
           /\ scatter' = r.scatter
           /\ quiver' = r.quiver
           /\ colorbar' = r.colorbar
           /\ pc' = IF r.err = NoErr THEN "layout" ELSE "error"
    /\ steps' = Append(steps, "render")
    /\ UNCHANGED <<argv, filename, file, called>>

\* fig, ax = plot_magnetization(pos, mag); an exception ends the run
PlotMagnetization ==
    /\ pc = "plot"
    /\ LET r == plot_magnetization(pos[1], mag[1])
       IN  /\ err' = r.err
           /\ fpos' = r.fpos
           /\ fmag' = r.fmag
           /\ color' = r.color
           /\ scatter' = r.scatter
           /\ quiver' = r.quiver
           /\ colorbar' = r.colorbar
           /\ pc' = IF r.err = NoErr THEN "layout" ELSE "error"
    /\ steps' = Append(steps, "render")
    /\ UNCHANGED <<argv, filename, file, called, pos, mag>>

\* fig.tight_layout()
TightLayout ==
    /\ pc = "layout"
    /\ pc' = "show"
    /\ steps' = Append(steps, "tight_layout")
    /\ UNCHANGED <<argv, filename, file, called, err, pos, mag, fpos, fmag, color,
                   scatter, quiver, colorbar>>

\* plt.show()
Show ==
    /\ pc = "show"
    /\ pc' = "done"
    /\ steps' = Append(steps, "show")
    /\ UNCHANGED <<argv, filename, file, called, err, pos, mag, fpos, fmag, color,
                   scatter, quiver, colorbar>>

Next == ParseArgs \/ LoadData \/ PlotMagnetization \/ TightLayout \/ Show

Spec == Init /\ [][Next]_vars

(***************************************************************************)
(* Notions the properties below are stated in, written from the text of     *)
(* the properties, not from the operators above.                            *)
(***************************************************************************)
LoadTried == Len(steps) >= 1
PlotTried == Len(steps) >= 2

\* the last five characters of n hold a '.'
DotInLastFive(n) == \E i \in 1..Len(n) : i > Len(n) - 5 /\ n[i] = "."
\* n ends in ".csv"
EndsInCsv(n) ==
    /\ Len(n) >= 4
    /\ n[Len(n) - 3] = "." /\ n[Len(n) - 2] = "c"
    /\ n[Len(n) - 1] = "s" /\ n[Len(n)] = "v"

\* the file is in the format of the loader that was called, so that the loader
\* parses it into the table file.rows
WellFormedForMode ==
    /\ file.exists /\ file.rows # <<>> /\ called # <<>>
    /\ \/ NumCols(file.rows) = 1
       \/ called[1] = "csv" /\ file.sep = ","
       \/ called[1] = "oomf" /\ file.sep = " "

\* the rows of the file whose magnetization (fields 4..6) is not all zero, in order
Magnetized(r) == r[4] # 0 \/ r[5] # 0 \/ r[6] # 0
RenderedRows == SelectSeq(file.rows, Magnetized)
RenderedMz == [i \in 1..Len(RenderedRows) |-> RenderedRows[i][6]]
MzSet == {RenderedMz[i] : i \in 1..Len(RenderedMz)}
MzMax == CHOOSE v \in MzSet : \A w \in MzSet : w <= v
MzMin == CHOOSE v \in MzSet : \A w \in MzSet : v <= w

\* order and arithmetic of finite fractions (den > 0)
FracLeq(a, b) == a.num * b.den <= b.num * a.den
ColorSet == {color[1][i] : i \in 1..Len(color[1])}
ColorMax == CHOOSE c \in ColorSet : \A d \in ColorSet : FracLeq(d, c)
ColorMin == CHOOSE c \in ColorSet : \A d \in ColorSet : FracLeq(c, d)
AllFinite == \A i \in 1..Len(color[1]) : color[1][i].den > 0

(***************************************************************************)
(* C1: load_data decides from the file name alone: no '.' in the last five  *)
(* characters -> load_oomf; a '.' there and the name ends in ".csv" ->      *)
(* load_csv; a '.' there and another ending -> the invalid-extension error  *)
(* naming the file, and no loader is called.                                *)
(***************************************************************************)
C1_Dispatch ==
    LoadTried =>
        LET n == filename[1]
        IN  /\ ~DotInLastFive(n) => called = <<"oomf">>
            /\ DotInLastFive(n) /\ EndsInCsv(n) => called = <<"csv">>
            /\ DotInLastFive(n) /\ ~EndsInCsv(n) =>
                   /\ called = <<>>
                   /\ err = [kind |-> "InvalidExtension", name |-> n]
                   /\ pos = None /\ mag = None
                   /\ pc = "error"

\* a name whose only '.' lies six characters from the end went to load_oomf
C1_Witness ==
    /\ LoadTried
    /\ Len(filename[1]) = 6 /\ filename[1][1] = "." /\ called = <<"oomf">>

(***************************************************************************)
(* C2: a file whose parsed table has a column count other than 6 fails      *)
(* with the 6-column error and yields no arrays, in both modes, whatever    *)
(* the number of rows.                                                      *)
(***************************************************************************)
C2_MalformedAlways ==
    (LoadTried /\ WellFormedForMode /\ NumCols(file.rows) # 6) =>
        /\ err.kind = "MalformedData"
        /\ pos = None /\ mag = None

(***************************************************************************)
(* C3: a well-formed 6-column file of N >= 1 rows loads, in both modes,     *)
(* into Position and Magnetization of shape (N, 3) with Position[i] =       *)
(* row[i][0:3] and Magnetization[i] = row[i][3:6].                          *)
(***************************************************************************)
C3_LoadSplits ==
    (LoadTried /\ WellFormedForMode /\ NumCols(file.rows) = 6) =>
        LET N == Len(file.rows)
        IN  /\ err = NoErr
            /\ pos # None /\ mag # None
            /\ pos[1].shape = <<N, 3>> /\ mag[1].shape = <<N, 3>>
            /\ Len(pos[1].data) = N /\ Len(mag[1].data) = N
            /\ \A i \in 1..N :
                   /\ pos[1].data[i] = <<file.rows[i][1], file.rows[i][2], file.rows[i][3]>>
                   /\ mag[1].data[i] = <<file.rows[i][4], file.rows[i][5], file.rows[i][6]>>

(***************************************************************************)
(* C4: the sites plot_magnetization draws are exactly the rows whose        *)
(* magnetization has a nonzero component: as many points and arrows as      *)
(* such rows, each at that row's (X, Y), and no all-zero row is drawn.      *)
(***************************************************************************)
C4_RenderedAreNonzero ==
    PlotTried =>
        LET M == mag[1].data
            P == pos[1].data
            NZ == {i \in 1..Len(M) : M[i] # <<0, 0, 0>>}
            pts == IF scatter = None THEN <<>> ELSE scatter[1]
            arrows == IF quiver = None THEN <<>> ELSE quiver[1]
            \* the k-th row of NZ in ascending order
            nth(k) == CHOOSE i \in NZ : Cardinality({j \in NZ : j < i}) = k - 1
        IN  /\ Len(pts) = Cardinality(NZ)
            /\ Len(arrows) = Cardinality(NZ)
            /\ \A k \in 1..Len(pts) :
                   /\ pts[k].x = P[nth(k)][1] /\ pts[k].y = P[nth(k)][2]
                   /\ arrows[k].x = P[nth(k)][1] /\ arrows[k].y = P[nth(k)][2]
                   /\ arrows[k].u = M[nth(k)][1] /\ arrows[k].v = M[nth(k)][2]

\* Mag = [[0,0,0],[1,0,0],[0,0,0]]: one of three sites is drawn
C4_Witness ==
    /\ pc = "done"
    /\ mag[1].data = <<<<0, 0, 0>>, <<1, 0, 0>>, <<0, 0, 0>>>>
    /\ Len(scatter[1]) = 1

(***************************************************************************)
(* C5: wherever both arrays exist, after loading and after the filter,      *)
(* they have the same number of rows and row i of each is the same site;    *)
(* the filter keeps the surviving rows of both in their original order.     *)
(***************************************************************************)
C5_RowAligned ==
    /\ pos # None =>
           /\ mag # None
           /\ Len(pos[1].data) = Len(mag[1].data)
           /\ pos[1].shape[1] = mag[1].shape[1]
           /\ \A i \in 1..Len(pos[1].data) :
                  pos[1].data[i] \o mag[1].data[i] = file.rows[i]
    /\ fpos # None =>
           /\ fmag # None
           /\ Len(fpos[1].data) = Len(fmag[1].data)
           /\ fpos[1].shape[1] = fmag[1].shape[1]
           /\ Len(fpos[1].data) = Len(RenderedRows)
           /\ \A i \in 1..Len(fpos[1].data) :
                  fpos[1].data[i] \o fmag[1].data[i] = RenderedRows[i]

\* a filter that dropped a site between two that survive, which differ
C5_Witness ==
    /\ fpos # None
    /\ Len(pos[1].data) = 3 /\ Len(fpos[1].data) = 2
    /\ mag[1].data[2] = <<0, 0, 0>>
    /\ fpos[1].data[1] # fpos[1].data[2]

(***************************************************************************)
(* C6: when the Mz of the rendered sites are not all equal, color[i] =      *)
(* 2 * Mz[i] / (max(Mz) - min(Mz)) with max and min over the rendered       *)
(* sites only; Mz = [1, 3, 5] gives [0.5, 1.5, 2.5]; scatter and quiver     *)
(* use the same colour values.                                              *)
(***************************************************************************)
C6_ColorFormula ==
    (PlotTried /\ Cardinality(MzSet) > 1) =>
        /\ color # None /\ scatter # None /\ quiver # None
        /\ Len(color[1]) = Len(RenderedMz)
        /\ \A i \in 1..Len(RenderedMz) :
               /\ color[1][i].den > 0
               /\ color[1][i].num * (MzMax - MzMin) = 2 * RenderedMz[i] * color[1][i].den
               /\ scatter[1][i].c = color[1][i]
               /\ quiver[1][i].c = color[1][i]
        /\ RenderedMz = <<1, 3, 5>> =>
               color[1] = <<[num |-> 1, den |-> 2], [num |-> 3, den |-> 2],
                            [num |-> 5, den |-> 2]>>

\* Mz = [1, 3, 5] was coloured
C6_Witness ==
    /\ color # None
    /\ RenderedMz = <<1, 3, 5>>

(***************************************************************************)
(* C7: when all Mz of the sites left by the filter are equal (one site      *)
(* left, or none at all, included), plot_magnetization does not crash: the  *)
(* colours are non-finite and the call returns.                             *)
(***************************************************************************)
C7_DegenerateNoCrash ==
    (PlotTried /\ Cardinality(MzSet) <= 1) =>
        /\ err = NoErr /\ pc # "error"
        /\ color # None
        /\ \A i \in 1..Len(color[1]) : color[1][i].den = 0

(***************************************************************************)
(* C8 as stated: for non-constant Mz the colours span an interval           *)
(* symmetric about zero, min(color) = -max(color).                          *)
(***************************************************************************)
C8_SymmetricRange ==
    (PlotTried /\ Cardinality(MzSet) > 1) =>
        /\ color # None /\ AllFinite
        /\ ColorMin.num * ColorMax.den = -(ColorMax.num * ColorMin.den)

(***************************************************************************)
(* C8 amended: for non-constant Mz the colours span an interval of width    *)
(* exactly 2, max(color) - min(color) = 2, and that interval is symmetric   *)
(* about zero exactly when min(Mz) = -max(Mz) over the rendered sites.      *)
(***************************************************************************)
C8_WidthTwo ==
    (PlotTried /\ Cardinality(MzSet) > 1) =>
        /\ color # None /\ AllFinite
        /\ ColorMax.num * ColorMin.den - ColorMin.num * ColorMax.den
               = 2 * ColorMax.den * ColorMin.den
        /\ (ColorMin.num * ColorMax.den = -(ColorMax.num * ColorMin.den))
               <=> (MzMin = -MzMax)

\* colours of width 2 that are not symmetric: Mz ranges over 1..5
C8_Witness ==
    /\ color # None
    /\ Cardinality(MzSet) > 1
    /\ MzMin = 1 /\ MzMax = 5

(***************************************************************************)
(* C9: the steps of a run are load, render, tight-layout, display in that   *)
(* order, and every error is fatal: after a failure the run is in the error *)
(* state, it has no arrays from a failed load, and no step follows.         *)
(***************************************************************************)
StepOrder == <<"load", "render", "tight_layout", "show">>

C9_State ==
    /\ Len(steps) <= Len(StepOrder)
    /\ steps = SubSeq(StepOrder, 1, Len(steps))
    /\ (err # NoErr) <=> (pc = "error")
    /\ (pc = "error" /\ Len(steps) = 1) =>
           /\ pos = None /\ mag = None /\ fpos = None /\ fmag = None
           /\ scatter = None /\ quiver = None
    /\ pc = "done" => steps = StepOrder

C9_Step == (pc = "error" \/ err # NoErr) => (pc' = "error" /\ steps' = steps /\ err' = err)

C9_OrderAndFatal == []C9_State /\ [][C9_Step]_vars

\* a load that failed on the column count ended the run after one step
C9_Witness ==
    /\ pc = "error" /\ err.kind = "MalformedData" /\ steps = <<"load">>

(***************************************************************************)
(* C10: plot_magnetization leaves the caller's Position and Magnetization   *)
(* as they were, whether it returns or fails; the filtered rows are a       *)
(* separate subset.                                                         *)
(***************************************************************************)
C10_CallerArraysKept == [][pc = "plot" => (pos' = pos /\ mag' = mag)]_vars

\* the call returned after dropping a row, and the caller still has all rows
C10_Witness ==
    /\ pc = "layout"
    /\ Len(fpos[1].data) < Len(pos[1].data)
    /\ Len(pos[1].data) = Len(file.rows)

====
